---- MODULE Spec2Model ----
(***************************************************************************)
(* Request-lifecycle coordinator of llava_node.cpp (LlavaNode): the goal / *)
(* cancel / accepted handlers that run on the action server's dispatch     *)
(* context, the detached execute threads they spawn, and the send_text     *)
(* callback the engine drives from inside generate_response.               *)
(*                                                                         *)
(* Goals are numbered 1..MaxGoals in the order they are accepted; 0 stands *)
(* for nullptr.  The execute thread started by handle_accepted for goal g  *)
(* is thread g: its parameter goal_handle is g, while the member           *)
(* this->goal_handle_ is the shared variable goal_handle_.  The handlers   *)
(* and the threads share goal_handle_ without synchronisation; every read  *)
(* and write of it is a step of its own, so a read sees the value before   *)
(* or after a concurrent write.                                            *)
(***************************************************************************)
EXTENDS Integers, Sequences, FiniteSets, TLC

\* Bounds of the model.
MaxGoals == 3
MaxTokens == 2
NumModels == 2
MaxBytes == 4

Goals == 1..MaxGoals
NULL == 0

VARIABLES
    goal_handle_,        \* LlavaNode::goal_handle_ (NULL or a goal)
    status,              \* per goal: the action server's goal state
    pc,                  \* per execute thread: position in LlavaNode::execute
    completion_results,  \* per execute thread: tokens generate_response produced
    feedback,            \* per goal handle: tokens published as feedback on it
    result,              \* per goal handle: tokens of the result it was resolved with
    made,                \* per execute thread: the terminal call it made and the
                         \* handle it made it on
    last_cancel,         \* the latest cancel, if it was accepted for an active goal
                         \* whose generation was in flight: the goal and the number
                         \* of feedback units sent on its handle when handle_cancel ran
    llava,               \* the engine: cancel signal, loaded image, context
    dispatch,            \* the dispatch context: the callback it is in, the goal a
                         \* cancel is for, whether a goal was active when the
                         \* handler that has just returned ran
    response,            \* value handle_goal has just returned
    cancel_response,     \* value handle_cancel has just returned
    next_goal,           \* number the next accepted goal gets
    ok,                  \* rclcpp::ok()
    crashed,             \* the process died (uncaught exception or fault)
    gpt_params,          \* LlavaNode::gpt_params: the vocabulary size and eos token
                         \* last handed to update_sampling_params
    setup,               \* run of the engine-call sequence of execute on its own:
                         \* the goal data, the calls made, the parameters before
    b64                  \* run of base64_encode on its own: input and return value

vars == <<goal_handle_, status, pc, completion_results, feedback, result, made,
          last_cancel, llava, dispatch, response, cancel_response, next_goal, ok,
          crashed, gpt_params, setup, b64>>

\* The variables of the runs that take one function on its own.
fn_vars == <<setup, b64>>

\* The token id of the k-th Completion Unit the engine yields in thread g's run.
Token(g, k) == 10 * g + k

Idle == [op |-> "idle", g |-> NULL, active |-> FALSE]

NoCall == [op |-> "none", h |-> NULL]

NoCancel == [g |-> NULL, n |-> 0]

\* gpt_params before any update_sampling_params.
NoParams == [n_vocab |-> 0, token_eos |-> 0]

NoSetup == [phase |-> "idle", reset |-> FALSE, image_size |-> 0, loaded |-> FALSE,
            calls |-> << >>, before |-> NoParams]

NoB64 == [phase |-> "idle", bytes |-> << >>, url |-> FALSE, ret |-> << >>]

----------------------------------------------------------------------------
\* The action server's goal handle (rclcpp_action::ServerGoalHandle).

\* goal_handle->is_active(): accepted, executing or canceling.
is_active(h) == status[h] \in {"executing", "canceling"}

\* goal_handle->is_canceling()
is_canceling(h) == status[h] = "canceling"

SomeGoalActive == \E g \in Goals : is_active(g)

Final(op) == CASE op = "abort" -> "aborted"
               [] op = "canceled" -> "canceled"
               [] op = "succeed" -> "succeeded"

\* abort() and succeed() are valid from EXECUTING and CANCELING, canceled()
\* from CANCELING only.
Valid(op, h) == IF op = "canceled" THEN is_canceling(h) ELSE is_active(h)

----------------------------------------------------------------------------
\* The engine (llava).

Generating == {t \in Goals : pc[t] \in {"gen_loop", "send_text", "publish"}}

\* llava->cancel(): signals the generation in flight; nothing to signal otherwise.
llava_cancel(e) == IF Generating # {} THEN [e EXCEPT !.canceled = TRUE] ELSE e

llava_reset(e) == [e EXCEPT !.dirty = FALSE]

llava_free_image(e) == [e EXCEPT !.image = FALSE]

llava_load_image(e, loaded) == IF loaded THEN [e EXCEPT !.image = TRUE] ELSE e

\* Entry of generate_response: a new generation starts with the signal clear.
llava_begin_generate(e) == [e EXCEPT !.canceled = FALSE, !.dirty = TRUE]

\* The model the engine has loaded fixes its vocabulary size and eos token.
Model(m) == [n_vocab |-> 10 * m, token_eos |-> m]

Models == {Model(m) : m \in 1..NumModels}

llava_get_n_vocab(e) == e.model.n_vocab

llava_get_token_eos(e) == e.model.token_eos

----------------------------------------------------------------------------
\* LlavaNode::LlavaNode
InitNode ==
    /\ goal_handle_ = NULL
    /\ status = [g \in Goals |-> "unknown"]
    /\ pc = [g \in Goals |-> "idle"]
    /\ completion_results = [g \in Goals |-> << >>]
    /\ feedback = [g \in Goals |-> << >>]
    /\ result = [g \in Goals |-> << >>]
    /\ made = [g \in Goals |-> NoCall]
    /\ last_cancel = NoCancel
    /\ dispatch = Idle
    /\ response = "none"
    /\ cancel_response = "none"
    /\ next_goal = 1
    /\ ok = TRUE
    /\ crashed = FALSE
    /\ gpt_params = NoParams

Init ==
    /\ InitNode
    /\ llava = [canceled |-> FALSE, image |-> FALSE, dirty |-> FALSE,
                model |-> Model(1)]
    /\ setup = NoSetup
    /\ b64 = NoB64

----------------------------------------------------------------------------
\* Dispatch context: the callbacks bound in the constructor.  One callback
\* runs at a time; the execute threads run concurrently with it.

\* Variants of the decision with a plausible slip: the is_active() test
\* dropped (a stale handle blocks admission), and the test of goal_handle_
\* dropped altogether.
GoalResponse_RejectsStale ==
    IF goal_handle_ # NULL THEN "REJECT" ELSE "ACCEPT_AND_EXECUTE"

GoalResponse_AlwaysAccepts == "ACCEPT_AND_EXECUTE"

\* The decision of LlavaNode::handle_goal.
GoalResponse ==
    IF goal_handle_ # NULL /\ is_active(goal_handle_)
    THEN "REJECT"
    ELSE "ACCEPT_AND_EXECUTE"

\* LlavaNode::handle_goal: a goal request arrives; the handler only decides.
handle_goal ==
    /\ ~crashed /\ ok
    /\ dispatch = Idle
    /\ next_goal <= MaxGoals
    /\ response' = GoalResponse
    /\ dispatch' = [op |-> "goal_response", g |-> NULL,
                    active |-> SomeGoalActive]
    /\ UNCHANGED <<goal_handle_, status, pc, completion_results, feedback, result,
                   made, last_cancel, llava, cancel_response, next_goal, ok, crashed,
                   gpt_params, fn_vars>>

\* The server answers a rejected goal request.
goal_rejected ==
    /\ ~crashed
    /\ dispatch.op = "goal_response"
    /\ response = "REJECT"
    /\ response' = "none"
    /\ dispatch' = Idle
    /\ UNCHANGED <<goal_handle_, status, pc, completion_results, feedback, result,
                   made, last_cancel, llava, cancel_response, next_goal, ok, crashed,
                   gpt_params, fn_vars>>

\* LlavaNode::handle_accepted: the server has created the goal handle (state
\* EXECUTING for ACCEPT_AND_EXECUTE); the handler installs it and detaches
\* an execute thread bound to it.
handle_accepted ==
    /\ ~crashed
    /\ dispatch.op = "goal_response"
    /\ response = "ACCEPT_AND_EXECUTE"
    /\ status' = [status EXCEPT ![next_goal] = "executing"]
    /\ goal_handle_' = next_goal
    /\ pc' = [pc EXCEPT ![next_goal] = "start"]
    /\ next_goal' = next_goal + 1
    /\ response' = "none"
    /\ dispatch' = Idle
    /\ UNCHANGED <<completion_results, feedback, result, made, last_cancel, llava,
                   cancel_response, ok, crashed,
                   gpt_params, fn_vars>>

\* A cancel request for goal g reaches the server, which finds g cancelable
\* and is about to call the cancel handler.
cancel_request(g) ==
    /\ ~crashed /\ ok
    /\ dispatch = Idle
    /\ status[g] = "executing"
    /\ dispatch' = [op |-> "handle_cancel", g |-> g, active |-> FALSE]
    /\ UNCHANGED <<goal_handle_, status, pc, completion_results, feedback, result,
                   made, last_cancel, llava, response, cancel_response, next_goal,
                   ok, crashed,
                   gpt_params, fn_vars>>

\* Variant of handle_cancel with a plausible slip: the handler drops the
\* active handle itself instead of leaving resolution to execute.
handle_cancel_ClearsHandle ==
    /\ ~crashed
    /\ dispatch.op = "handle_cancel"
    /\ llava' = llava_cancel(llava)
    /\ cancel_response' = "ACCEPT"
    /\ goal_handle_' = NULL
    /\ dispatch' = [op |-> "cancel_goal", g |-> dispatch.g,
                    active |-> SomeGoalActive]
    /\ UNCHANGED <<status, pc, completion_results, feedback, result, made,
                   last_cancel, response, next_goal, ok, crashed,
                   gpt_params, fn_vars>>

\* LlavaNode::handle_cancel
handle_cancel ==
    /\ ~crashed
    /\ dispatch.op = "handle_cancel"
    /\ llava' = llava_cancel(llava)
    /\ cancel_response' = "ACCEPT"
    /\ last_cancel' = IF is_active(dispatch.g) /\ dispatch.g \in Generating
                      THEN [g |-> dispatch.g, n |-> Len(feedback[dispatch.g])]
                      ELSE NoCancel
    /\ dispatch' = [op |-> "cancel_goal", g |-> dispatch.g,
                    active |-> SomeGoalActive]
    /\ UNCHANGED <<goal_handle_, status, pc, completion_results, feedback, result,
                   made, response, next_goal, ok, crashed,
                   gpt_params, fn_vars>>

\* After handle_cancel returned ACCEPT the server moves the goal to CANCELING;
\* if the goal has terminated meanwhile the transition fails, the server
\* answers the request as rejected, and the cancel does not count as accepted.
cancel_goal ==
    /\ ~crashed
    /\ dispatch.op = "cancel_goal"
    /\ IF status[dispatch.g] = "executing"
       THEN /\ status' = [status EXCEPT ![dispatch.g] = "canceling"]
            /\ last_cancel' = last_cancel
       ELSE /\ status' = status
            /\ last_cancel' = NoCancel
    /\ cancel_response' = "none"
    /\ dispatch' = Idle
    /\ UNCHANGED <<goal_handle_, pc, completion_results, feedback, result, made,
                   llava, response, next_goal, ok, crashed,
                   gpt_params, fn_vars>>

\* rclcpp::shutdown(): rclcpp::ok() turns false and no further callback starts.
shutdown ==
    /\ ~crashed /\ ok
    /\ ok' = FALSE
    /\ UNCHANGED <<goal_handle_, status, pc, completion_results, feedback, result,
                   made, last_cancel, llava, dispatch, response, cancel_response,
                   next_goal, crashed,
                   gpt_params, fn_vars>>

----------------------------------------------------------------------------
\* Calls execute makes through this->goal_handle_.

\* Thread t calls abort / canceled / succeed on handle h with result tokens res.
\* An invalid transition throws out of the detached thread and ends the process.
TerminalCall(t, h, op, res) ==
    /\ made' = [made EXCEPT ![t] = [op |-> op, h |-> h]]
    /\ IF Valid(op, h)
       THEN /\ status' = [status EXCEPT ![h] = Final(op)]
            /\ result' = [result EXCEPT ![h] = res]
            /\ crashed' = crashed
       ELSE /\ crashed' = TRUE
            /\ UNCHANGED <<status, result>>

\* Thread t calls op through a null goal_handle_: undefined behaviour, which
\* either faults or goes unnoticed.
NullCall(t, op) ==
    /\ made' = [made EXCEPT ![t] = [op |-> op, h |-> NULL]]
    /\ crashed' \in BOOLEAN
    /\ UNCHANGED <<status, result>>

----------------------------------------------------------------------------
\* LlavaNode::execute, run by the detached thread t with goal_handle = t.

\* The image step for a non-empty payload: decode, JPEG-encode, base64-encode,
\* hand to the engine.
ImageCodec == <<"toCvCopy", "imencode", "base64_encode", "load_image">>

\* Variants of the call sequence with a plausible slip: the else branch of the
\* image step left out, and the reset moved behind the image step.
SetupCalls_KeepsImage(reset, image_size, loaded) ==
    (IF reset THEN <<"reset">> ELSE << >>)
    \o <<"update_sampling_params">>
    \o (IF image_size > 0 THEN ImageCodec ELSE << >>)
    \o (IF image_size > 0 /\ ~loaded THEN << >> ELSE <<"generate_response">>)

SetupCalls_ResetLate(reset, image_size, loaded) ==
    <<"update_sampling_params">>
    \o (IF image_size > 0 THEN ImageCodec ELSE <<"free_image">>)
    \o (IF reset THEN <<"reset">> ELSE << >>)
    \o (IF image_size > 0 /\ ~loaded THEN << >> ELSE <<"generate_response">>)

\* The calls execute makes, in order, up to the entry of generate_response:
\* optional reset, sampling parameters, then the image codec and load_image
\* for a non-empty image payload or free_image for an empty one.  A failed
\* load_image ends the sequence (execute aborts and returns).
SetupCalls(reset, image_size, loaded) ==
    (IF reset THEN <<"reset">> ELSE << >>)
    \o <<"update_sampling_params">>
    \o (IF image_size > 0 THEN ImageCodec ELSE <<"free_image">>)
    \o (IF image_size > 0 /\ ~loaded THEN << >> ELSE <<"generate_response">>)

\* Variant with a plausible slip: the values are fetched once and kept.
SamplingParams_Cached(e) ==
    IF gpt_params = NoParams
    THEN [n_vocab |-> llava_get_n_vocab(e), token_eos |-> llava_get_token_eos(e)]
    ELSE gpt_params

\* What update_sampling_params receives: llava->get_n_vocab() and
\* llava->get_token_eos(), evaluated at the call.
SamplingParams(e) ==
    [n_vocab |-> llava_get_n_vocab(e), token_eos |-> llava_get_token_eos(e)]

\* The effect of one call on the engine and on gpt_params.
ApplyCall(s, call, loaded) ==
    CASE call = "reset" -> [s EXCEPT !.llava = llava_reset(@)]
      [] call = "update_sampling_params" ->
            [s EXCEPT !.gpt_params = SamplingParams(s.llava)]
      [] call = "load_image" -> [s EXCEPT !.llava = llava_load_image(@, loaded)]
      [] call = "free_image" -> [s EXCEPT !.llava = llava_free_image(@)]
      [] call = "generate_response" -> [s EXCEPT !.llava = llava_begin_generate(@)]
      [] OTHER -> s

RECURSIVE ApplyCalls(_, _, _)
ApplyCalls(s, calls, loaded) ==
    IF calls = << >> THEN s
    ELSE ApplyCalls(ApplyCall(s, Head(calls), loaded), Tail(calls), loaded)

\* The engine and gpt_params after the calls of SetupCalls.
Setup(e, reset, image_size, loaded) ==
    ApplyCalls([llava |-> e, gpt_params |-> gpt_params],
               SetupCalls(reset, image_size, loaded), loaded)

EngineSetup(e, reset, image_size, loaded) ==
    Setup(e, reset, image_size, loaded).llava

execute_start(t) ==
    /\ ~crashed
    /\ pc[t] = "start"
    /\ \E reset \in BOOLEAN, image_size \in 0..1, loaded \in BOOLEAN :
          /\ llava' = EngineSetup(llava, reset, image_size, loaded)
          /\ gpt_params' = Setup(llava, reset, image_size, loaded).gpt_params
          /\ pc' = [pc EXCEPT ![t] =
                IF image_size > 0 /\ ~loaded THEN "abort" ELSE "gen_loop"]
    /\ UNCHANGED <<goal_handle_, status, completion_results, feedback, result,
                   made, last_cancel, dispatch, response, cancel_response,
                   next_goal, ok, crashed, fn_vars>>

\* load_image failed: this->goal_handle_->abort(result); return;
execute_abort(t) ==
    /\ ~crashed
    /\ pc[t] = "abort"
    /\ IF goal_handle_ = NULL
       THEN NullCall(t, "abort")
       ELSE TerminalCall(t, goal_handle_, "abort", << >>)
    /\ pc' = [pc EXCEPT ![t] = "done"]
    /\ UNCHANGED <<goal_handle_, completion_results, feedback, last_cancel, llava,
                   dispatch, response, cancel_response, next_goal, ok,
                   gpt_params, fn_vars>>

\* The engine yields the next Completion Unit and calls the callback with it.
generate_token(t) ==
    /\ ~crashed
    /\ pc[t] = "gen_loop"
    /\ ~llava.canceled
    /\ Len(completion_results[t]) < MaxTokens
    /\ completion_results' = [completion_results EXCEPT
          ![t] = Append(@, Token(t, Len(@) + 1))]
    /\ pc' = [pc EXCEPT ![t] = "send_text"]
    /\ UNCHANGED <<goal_handle_, status, feedback, result, made, last_cancel, llava,
                   dispatch, response, cancel_response, next_goal, ok, crashed,
                   gpt_params, fn_vars>>

\* LlavaNode::send_text: if (this->goal_handle_ != nullptr)
send_text_check(t) ==
    /\ ~crashed
    /\ pc[t] = "send_text"
    /\ pc' = [pc EXCEPT ![t] = IF goal_handle_ # NULL THEN "publish"
                                                       ELSE "gen_loop"]
    /\ UNCHANGED <<goal_handle_, status, completion_results, feedback, result,
                   made, last_cancel, llava, dispatch, response, cancel_response,
                   next_goal, ok, crashed,
                   gpt_params, fn_vars>>

\* LlavaNode::send_text: this->goal_handle_->publish_feedback(feedback)
send_text_publish(t) ==
    /\ ~crashed
    /\ pc[t] = "publish"
    /\ IF goal_handle_ = NULL
       THEN /\ crashed' \in BOOLEAN
            /\ UNCHANGED feedback
       ELSE /\ feedback' = [feedback EXCEPT ![goal_handle_] =
                  Append(@, completion_results[t][Len(completion_results[t])])]
            /\ crashed' = crashed
    /\ pc' = [pc EXCEPT ![t] = "gen_loop"]
    /\ UNCHANGED <<goal_handle_, status, completion_results, result, made,
                   last_cancel, llava, dispatch, response, cancel_response,
                   next_goal, ok,
                   gpt_params, fn_vars>>

\* Variant with a plausible slip: the shutdown test left out.
rclcpp_ok_Unchecked == TRUE

\* rclcpp::ok() as execute reads it before resolving.
rclcpp_ok == ok

\* generate_response returns (stop condition, length limit, or the cancel
\* signal seen at the token boundary), execute aggregates completion_results
\* and reaches: if (rclcpp::ok()) { if (this->goal_handle_->is_canceling())
execute_resolve(t) ==
    /\ ~crashed
    /\ pc[t] = "gen_loop"
    /\ IF ~rclcpp_ok
       THEN /\ pc' = [pc EXCEPT ![t] = "done"]
            /\ crashed' = crashed
       ELSE IF goal_handle_ = NULL
       THEN /\ crashed' \in BOOLEAN
            /\ \E b \in {"canceled", "succeed"} : pc' = [pc EXCEPT ![t] = b]
       ELSE /\ pc' = [pc EXCEPT ![t] =
                  IF is_canceling(goal_handle_) THEN "canceled" ELSE "succeed"]
            /\ crashed' = crashed
    /\ UNCHANGED <<goal_handle_, status, completion_results, feedback, result,
                   made, last_cancel, llava, dispatch, response, cancel_response,
                   next_goal, ok,
                   gpt_params, fn_vars>>

\* this->goal_handle_->canceled(result) or this->goal_handle_->succeed(result)
execute_finish(t) ==
    /\ ~crashed
    /\ pc[t] \in {"canceled", "succeed"}
    /\ IF goal_handle_ = NULL
       THEN NullCall(t, pc[t])
       ELSE TerminalCall(t, goal_handle_, pc[t], completion_results[t])
    /\ pc' = [pc EXCEPT ![t] = "clear"]
    /\ UNCHANGED <<goal_handle_, completion_results, feedback, last_cancel, llava,
                   dispatch, response, cancel_response, next_goal, ok,
                   gpt_params, fn_vars>>

\* this->goal_handle_ = nullptr;
execute_clear(t) ==
    /\ ~crashed
    /\ pc[t] = "clear"
    /\ goal_handle_' = NULL
    /\ pc' = [pc EXCEPT ![t] = "done"]
    /\ UNCHANGED <<status, completion_results, feedback, result, made, last_cancel,
                   llava, dispatch, response, cancel_response, next_goal, ok,
                   crashed,
                   gpt_params, fn_vars>>

----------------------------------------------------------------------------
Next ==
    \/ handle_goal
    \/ goal_rejected
    \/ handle_accepted
    \/ \E g \in Goals : cancel_request(g)
    \/ handle_cancel
    \/ cancel_goal
    \/ shutdown
    \/ \E t \in Goals : execute_start(t)
    \/ \E t \in Goals : execute_abort(t)
    \/ \E t \in Goals : generate_token(t)
    \/ \E t \in Goals : send_text_check(t)
    \/ \E t \in Goals : send_text_publish(t)
    \/ \E t \in Goals : execute_resolve(t)
    \/ \E t \in Goals : execute_finish(t)
    \/ \E t \in Goals : execute_clear(t)

Spec == Init /\ [][Next]_vars

----------------------------------------------------------------------------
\* The engine-call sequence of execute on its own: goals arrive one after
\* another, each run applies the calls of SetupCalls to the engine as it then
\* is, and the engine may be reloaded with another model at any time.

node_vars == <<goal_handle_, status, pc, completion_results, feedback, result,
               made, last_cancel, dispatch, response, cancel_response, next_goal,
               ok, crashed>>

SetupInit ==
    /\ InitNode
    /\ llava \in [canceled : BOOLEAN, image : BOOLEAN, dirty : BOOLEAN,
                   model : Models]
    /\ setup = NoSetup
    /\ b64 = NoB64

\* execute reads the goal: reset flag and image payload; loaded is what
\* load_image will answer.
setup_goal ==
    /\ setup.phase # "ready"
    /\ \E reset \in BOOLEAN, image_size \in 0..1, loaded \in BOOLEAN :
          setup' = [phase |-> "ready", reset |-> reset, image_size |-> image_size,
                    loaded |-> loaded, calls |-> << >>, before |-> gpt_params]
    /\ UNCHANGED <<node_vars, llava, gpt_params, b64>>

\* execute runs from the reset test to the entry of generate_response (or to
\* the abort).
setup_run ==
    /\ setup.phase = "ready"
    /\ llava' = EngineSetup(llava, setup.reset, setup.image_size, setup.loaded)
    /\ gpt_params' =
          Setup(llava, setup.reset, setup.image_size, setup.loaded).gpt_params
    /\ setup' = [setup EXCEPT
          !.phase = "done",
          !.calls = SetupCalls(setup.reset, setup.image_size, setup.loaded)]
    /\ UNCHANGED <<node_vars, b64>>

\* The engine is reloaded with another model.
engine_reload ==
    /\ \E m \in Models \ {llava.model} : llava' = [llava EXCEPT !.model = m]
    /\ UNCHANGED <<node_vars, gpt_params, setup, b64>>

SetupNext ==
    \/ setup_goal
    \/ setup_run
    \/ engine_reload

SpecSetup == SetupInit /\ [][SetupNext]_vars

----------------------------------------------------------------------------
\* LlavaNode::base64_encode.  A string is the sequence of its characters.

\* static const char *base64_chars[2], subscripted with url.
base64_chars(url) ==
    IF url
    THEN <<"A", "B", "C", "D", "E", "F", "G", "H", "I", "J", "K", "L", "M",
         "N", "O", "P", "Q", "R", "S", "T", "U", "V", "W", "X", "Y", "Z",
         "a", "b", "c", "d", "e", "f", "g", "h", "i", "j", "k", "l", "m",
         "n", "o", "p", "q", "r", "s", "t", "u", "v", "w", "x", "y", "z",
         "0", "1", "2", "3", "4", "5", "6", "7", "8", "9", "-", "_">>
    ELSE <<"A", "B", "C", "D", "E", "F", "G", "H", "I", "J", "K", "L", "M",
         "N", "O", "P", "Q", "R", "S", "T", "U", "V", "W", "X", "Y", "Z",
         "a", "b", "c", "d", "e", "f", "g", "h", "i", "j", "k", "l", "m",
         "n", "o", "p", "q", "r", "s", "t", "u", "v", "w", "x", "y", "z",
         "0", "1", "2", "3", "4", "5", "6", "7", "8", "9", "+", "/">>

\* Variant with a plausible slip: the url padding character in both modes.
trailing_char_Dot(url) == "."

\* unsigned char trailing_char = url ? '.' : '=';
trailing_char(url) == IF url THEN "." ELSE "="

\* a & b on unsigned values.
RECURSIVE BitAnd(_, _)
BitAnd(a, b) ==
    IF a = 0 \/ b = 0 THEN 0
    ELSE (a % 2) * (b % 2) + 2 * BitAnd(a \div 2, b \div 2)

\* a << n and a >> n (no width is exceeded: the operands are below 256).
Shl(a, n) == a * 2^n

Shr(a, n) == a \div 2^n

\* Variant of the loop body with a plausible slip: the third character of a
\* two-byte tail taken without the shift.
EncodeGroup_NoShift(bytes_to_encode, in_len, pos, url) ==
    LET chars == base64_chars(url)
        B(i) == bytes_to_encode[pos + i + 1]
    IN  <<chars[Shr(BitAnd(B(0), 252), 2) + 1]>>
        \o IF pos + 1 < in_len
           THEN <<chars[Shl(BitAnd(B(0), 3), 4) + Shr(BitAnd(B(1), 240), 4) + 1]>>
                \o IF pos + 2 < in_len
                   THEN <<chars[Shl(BitAnd(B(1), 15), 2)
                                + Shr(BitAnd(B(2), 192), 6) + 1],
                          chars[BitAnd(B(2), 63) + 1]>>
                   ELSE <<chars[BitAnd(B(1), 15) + 1], trailing_char(url)>>
           ELSE <<chars[Shl(BitAnd(B(0), 3), 4) + 1],
                  trailing_char(url), trailing_char(url)>>

\* The characters one pass of the while loop pushes for the bytes at pos
\* (counted from 0), pos + 1 and pos + 2.
EncodeGroup(bytes_to_encode, in_len, pos, url) ==
    LET chars == base64_chars(url)
        B(i) == bytes_to_encode[pos + i + 1]
    IN  <<chars[Shr(BitAnd(B(0), 252), 2) + 1]>>
        \o IF pos + 1 < in_len
           THEN <<chars[Shl(BitAnd(B(0), 3), 4) + Shr(BitAnd(B(1), 240), 4) + 1]>>
                \o IF pos + 2 < in_len
                   THEN <<chars[Shl(BitAnd(B(1), 15), 2)
                                + Shr(BitAnd(B(2), 192), 6) + 1],
                          chars[BitAnd(B(2), 63) + 1]>>
                   ELSE <<chars[Shl(BitAnd(B(1), 15), 2) + 1], trailing_char(url)>>
           ELSE <<chars[Shl(BitAnd(B(0), 3), 4) + 1],
                  trailing_char(url), trailing_char(url)>>

\* while (pos < in_len) { ...; pos += 3; }
RECURSIVE EncodeLoop(_, _, _, _, _)
EncodeLoop(bytes_to_encode, in_len, pos, ret, url) ==
    IF pos < in_len
    THEN EncodeLoop(bytes_to_encode, in_len, pos + 3,
                    ret \o EncodeGroup(bytes_to_encode, in_len, pos, url), url)
    ELSE ret

base64_encode(bytes_to_encode, in_len, url) ==
    EncodeLoop(bytes_to_encode, in_len, 0, << >>, url)

\* base64_encode on its own: a call with a buffer of at most MaxBytes bytes
\* and either mode, then its return.
ByteSamples == {0, 3, 15, 63, 77, 192, 240, 255}

Buffers == UNION {[1..n -> ByteSamples] : n \in 0..MaxBytes}

B64Init ==
    /\ InitNode
    /\ llava = [canceled |-> FALSE, image |-> FALSE, dirty |-> FALSE,
                model |-> Model(1)]
    /\ setup = NoSetup
    /\ b64 \in {[phase |-> "call", bytes |-> b, url |-> u, ret |-> << >>] :
                  b \in Buffers, u \in BOOLEAN}

b64_call ==
    /\ b64.phase = "call"
    /\ b64' = [b64 EXCEPT
          !.phase = "returned",
          !.ret = base64_encode(b64.bytes, Len(b64.bytes), b64.url)]
    /\ UNCHANGED <<node_vars, llava, gpt_params, setup>>

B64Next == b64_call

SpecB64 == B64Init /\ [][B64Next]_vars

----------------------------------------------------------------------------
\* Vocabulary of the properties.

\* Terminal calls (abort, canceled, succeed) made on handle h so far.
Calls(h) == Cardinality({t \in Goals : made[t].op # "none" /\ made[t].h = h})

Resolved(g) == status[g] \in {"succeeded", "canceled", "aborted"}

\* The step just taken is the body of handle_goal / handle_accepted /
\* handle_cancel (only the dispatch context changes dispatch).
HandleGoalStep == dispatch.op = "idle" /\ dispatch'.op = "goal_response"

HandleAcceptedStep ==
    dispatch.op = "goal_response" /\ response = "ACCEPT_AND_EXECUTE" /\ dispatch' = Idle

HandleCancelStep == dispatch.op = "handle_cancel" /\ dispatch'.op = "cancel_goal"

\* Thread t takes the step in which execute reaches its resolution.
ReachesResolution(t) == pc[t] = "gen_loop" /\ pc'[t] \notin {"gen_loop", "send_text"}

\* Thread t returns from execute in this step.
Returns(t) == pc[t] # "done" /\ pc'[t] = "done"

----------------------------------------------------------------------------
\* C1: at most one goal is between handle_accepted and its terminal
\* resolution at any instant, and a handle_goal call made while some goal is
\* still executing returns REJECT.
C1_OneGoalAtATime ==
    /\ Cardinality({g \in Goals : is_active(g)}) <= 1
    /\ (dispatch.op = "goal_response" /\ dispatch.active) => response = "REJECT"

\* C2: while the process is not shutting down, every accepted goal receives
\* exactly one result: never more than one terminal call is made on its
\* handle, and once its execute thread has returned exactly one has been made.
C2_ExactlyOneResult ==
    ok => \A g \in Goals :
             /\ Calls(g) <= 1
             /\ pc[g] = "done" => Calls(g) = 1

\* C3: when a cancel has been accepted for a running goal after N feedback
\* units while its generation was in flight, the server has moved the goal to
\* canceling, and the engine produced nothing beyond those N units, execute
\* resolves the goal as CANCELED with exactly the first N emitted tokens as
\* its result.
C3_CancelKeepsFirstN ==
    ok => \A g \in Goals :
             ( /\ last_cancel.g = g
               /\ dispatch.op # "cancel_goal"
               /\ made[g].op \in {"canceled", "succeed"}
               /\ Len(completion_results[g]) = last_cancel.n )
             => /\ status[g] = "canceled"
                /\ result[g] = SubSeq(feedback[g], 1, last_cancel.n)

\* C4: for every goal resolved as SUCCEEDED or CANCELED the tokens of its
\* result are the tokens of the feedback delivered on its handle, in order.
C4_ResultIsFeedback ==
    \A g \in Goals :
        status[g] \in {"succeeded", "canceled"} => result[g] = feedback[g]

\* C5: goal_handle_ is null whenever execute returns after a terminal call,
\* whether that call was succeed, canceled or abort.
C5_ClearedOnEveryTerminal ==
    [][\A t \in Goals :
          (Returns(t) /\ made'[t].op # "none") => goal_handle_' = NULL]_vars

C7_ImageFailureAborts ==
    \A t \in Goals :
        (pc[t] = "done" /\ made[t].op = "abort")
        => /\ status[t] = "aborted"
           /\ result[t] = << >>
           /\ completion_results[t] = << >>
           /\ feedback[t] = << >>

\* C8: once a goal has been aborted after an image-load failure, a handle_goal
\* call made while no goal is active returns ACCEPT_AND_EXECUTE, and
\* handle_accepted installs the new goal's handle in place of the stale one.
C8_NotStuckAfterAbort ==
    [][ /\ ( /\ HandleGoalStep
              /\ ~SomeGoalActive
              /\ \E g \in Goals : status[g] = "aborted" )
           => response' = "ACCEPT_AND_EXECUTE"
        /\ HandleAcceptedStep
           => (goal_handle_' = next_goal /\ status'[next_goal] = "executing")
      ]_vars

\* handle_goal has just accepted a goal while goal_handle_ still refers to an
\* aborted goal.
C8_Witness ==
    /\ dispatch.op = "goal_response" /\ response = "ACCEPT_AND_EXECUTE"
    /\ goal_handle_ # NULL /\ status[goal_handle_] = "aborted"
    /\ made[goal_handle_] = [op |-> "abort", h |-> goal_handle_]

\* C9: handle_goal returns ACCEPT_AND_EXECUTE exactly when goal_handle_ is
\* null or refers to a resolved goal, REJECT otherwise, and changes neither
\* goal_handle_, the engine, nor any goal or execute thread.
C9_HandleGoalDecidesOnly ==
    [][HandleGoalStep =>
          /\ response' \in {"ACCEPT_AND_EXECUTE", "REJECT"}
          /\ response' = "ACCEPT_AND_EXECUTE"
                <=> (goal_handle_ = NULL \/ Resolved(goal_handle_))
          /\ UNCHANGED <<goal_handle_, llava, status, pc, completion_results,
                         feedback, result, made>>
      ]_vars

\* handle_goal has rejected a goal: goal_handle_ refers to an active goal.
C9_Witness ==
    /\ dispatch.op = "goal_response" /\ response = "REJECT"
    /\ goal_handle_ # NULL /\ is_active(goal_handle_)

\* C10: handle_cancel returns ACCEPT whether or not a goal is active, never
\* changes goal_handle_ and resolves no goal; when no goal is active it
\* changes nothing of the node or the engine.
C10_HandleCancelAccepts ==
    [][HandleCancelStep =>
          /\ cancel_response' = "ACCEPT"
          /\ UNCHANGED <<goal_handle_, status, result, made, pc,
                         completion_results, feedback>>
          /\ ~SomeGoalActive => llava' = llava
      ]_vars

\* handle_cancel has returned ACCEPT while no goal is active.
C10_Witness ==
    /\ dispatch.op = "cancel_goal" /\ cancel_response = "ACCEPT"
    /\ ~dispatch.active

\* Thread t takes the step in which send_text dereferences this->goal_handle_
\* (publish_feedback), having passed the null test earlier.
SendTextDeref(t) == pc[t] = "publish" /\ pc'[t] # "publish"

\* Thread t takes a step in which execute dereferences this->goal_handle_:
\* abort, is_canceling (read only when rclcpp::ok()), canceled or succeed.
ExecuteDeref(t) ==
    \/ pc[t] = "abort" /\ pc'[t] = "done"
    \/ pc[t] = "gen_loop" /\ pc'[t] \in {"canceled", "succeed"}
    \/ pc[t] \in {"canceled", "succeed"} /\ pc'[t] = "clear"

\* C11: whenever goal_handle_ is non-null it refers to a goal that is not yet
\* resolved and whose execute thread is still running.
C11_HandleMeansRunning ==
    goal_handle_ # NULL
    => (is_active(goal_handle_) /\ pc[goal_handle_] \notin {"idle", "done"})

\* C12: send_text called while goal_handle_ is null publishes nothing and
\* raises no error, and the handle send_text dereferences to publish is never
\* null, also when another execute thread clears goal_handle_ meanwhile.
C12_SendTextNullSafe ==
    [][\A t \in Goals :
          /\ (pc[t] = "send_text" /\ goal_handle_ = NULL /\ pc'[t] # "send_text")
             => (feedback' = feedback /\ crashed' = crashed)
          /\ SendTextDeref(t) => goal_handle_ # NULL]_vars

\* Number of times call c occurs in the sequence calls.
Count(calls, c) == Cardinality({i \in 1..Len(calls) : calls[i] = c})

\* Position of the first occurrence of call c in calls; 0 when it is absent.
Pos(calls, c) ==
    IF Count(calls, c) = 0 THEN 0
    ELSE CHOOSE i \in 1..Len(calls) :
            calls[i] = c /\ \A j \in 1..(i - 1) : calls[j] # c

\* C13: for a goal whose image payload is empty, execute makes none of the
\* calls of the image codec (decode, JPEG encode, base64_encode, load_image)
\* and calls free_image exactly once, before generate_response.
C13_EmptyImageFreesOnce ==
    (setup.phase = "done" /\ setup.image_size = 0)
    => /\ \A i \in 1..Len(ImageCodec) : Count(setup.calls, ImageCodec[i]) = 0
       /\ Count(setup.calls, "free_image") = 1
       /\ Count(setup.calls, "generate_response") = 1
       /\ Pos(setup.calls, "free_image") < Pos(setup.calls, "generate_response")

\* A run for a goal with an empty image payload has reached generate_response
\* and the engine holds no image.
C13_Witness ==
    /\ setup.phase = "done" /\ setup.image_size = 0
    /\ Count(setup.calls, "generate_response") = 1
    /\ ~llava.image

\* The base64 alphabet of RFC 4648 and the decoder that goes with it.
Rfc4648 ==
    <<"A", "B", "C", "D", "E", "F", "G", "H", "I", "J", "K", "L", "M",
    "N", "O", "P", "Q", "R", "S", "T", "U", "V", "W", "X", "Y", "Z",
    "a", "b", "c", "d", "e", "f", "g", "h", "i", "j", "k", "l", "m",
    "n", "o", "p", "q", "r", "s", "t", "u", "v", "w", "x", "y", "z",
    "0", "1", "2", "3", "4", "5", "6", "7", "8", "9", "+", "/">>

Rfc4648Index(c) == CHOOSE i \in 0..(Len(Rfc4648) - 1) : Rfc4648[i + 1] = c

Rfc4648Symbols == {Rfc4648[i] : i \in 1..Len(Rfc4648)}

\* str is a sequence of groups of four characters, padded with '=' in the
\* last one or two places of the last group only.
WellFormed(str) ==
    /\ Len(str) % 4 = 0
    /\ \A i \in 1..Len(str) :
          \/ str[i] \in Rfc4648Symbols
          \/ str[i] = "=" /\ i >= Len(str) - 1 /\ str[Len(str)] = "="

DecodeGroup(q) ==
    LET n1 == Rfc4648Index(q[1])
        n2 == Rfc4648Index(q[2])
        n3 == Rfc4648Index(q[3])
        n4 == Rfc4648Index(q[4])
        b1 == n1 * 4 + n2 \div 16
        b2 == (n2 % 16) * 16 + n3 \div 4
        b3 == (n3 % 4) * 64 + n4
    IN  IF q[3] = "=" THEN <<b1>>
        ELSE IF q[4] = "=" THEN <<b1, b2>>
        ELSE <<b1, b2, b3>>

RECURSIVE base64_decode(_)
base64_decode(str) ==
    IF str = << >> THEN << >>
    ELSE DecodeGroup(SubSeq(str, 1, 4)) \o base64_decode(SubSeq(str, 5, Len(str)))

\* C14: decoding the standard-mode return value of base64_encode with a
\* standard base64 decoder gives back the bytes of the buffer, for every
\* buffer length including 0, 1, 2, 3 and lengths not a multiple of 3.
C14_Base64RoundTrip ==
    (b64.phase = "returned" /\ ~b64.url)
    => /\ WellFormed(b64.ret)
       /\ base64_decode(b64.ret) = b64.bytes

\* base64_encode has returned for a buffer longer than one group whose
\* length is not a multiple of 3.
C14_Witness ==
    /\ b64.phase = "returned" /\ ~b64.url
    /\ Len(b64.bytes) > 3 /\ Len(b64.bytes) % 3 # 0
    /\ Len(b64.ret) > 4

\* C15: in standard mode base64_encode returns 4 * ceil(n / 3) characters for
\* n bytes, the last (3 - n % 3) % 3 of which are '=' and all others among the
\* 64 symbols A-Z a-z 0-9 + /; for no bytes it returns the empty string.
C15_Base64Shape ==
    (b64.phase = "returned" /\ ~b64.url)
    => LET n == Len(b64.bytes)
           pad == (3 - (n % 3)) % 3
           ret == b64.ret
       IN  /\ Len(ret) = 4 * ((n + 2) \div 3)
           /\ \A i \in 1..Len(ret) :
                 IF i > Len(ret) - pad THEN ret[i] = "="
                                       ELSE ret[i] \in Rfc4648Symbols
           /\ n = 0 => ret = << >>

\* base64_encode has returned a string padded with two '=' for a buffer that
\* ends with a one-byte group.
C15_Witness ==
    /\ b64.phase = "returned" /\ ~b64.url
    /\ Len(b64.bytes) % 3 = 1
    /\ Len(b64.ret) >= 4
    /\ b64.ret[Len(b64.ret)] = "=" /\ b64.ret[Len(b64.ret) - 1] = "="

\* C16: each Completion Unit generate_response yields for a goal is published
\* exactly once as feedback on that goal, in the order of generation: between
\* callbacks the feedback of a goal is the sequence of units its generation
\* has yielded, and inside a callback all of them but the one in hand.
C16_OneFeedbackPerUnit ==
    \A t \in Goals :
        feedback[t] =
            IF pc[t] \in {"send_text", "publish"}
            THEN SubSeq(completion_results[t], 1, Len(completion_results[t]) - 1)
            ELSE completion_results[t]

\* The call that completes the image step in the sequence calls.
ImageStepEnd(calls) ==
    IF Count(calls, "load_image") > 0 THEN Pos(calls, "load_image")
                                      ELSE Pos(calls, "free_image")

\* C17: in one run execute calls reset exactly when the goal's reset flag is
\* set, and then before the sampling update, the image step and
\* generate_response; the sampling update and the image step are made once
\* each, and generate_response is called at most once and only after the
\* image step has completed.
C17_EngineCallOrder ==
    setup.phase = "done"
    => LET calls == setup.calls
       IN  /\ Count(calls, "reset") = (IF setup.reset THEN 1 ELSE 0)
           /\ setup.reset => Pos(calls, "reset") = 1
           /\ Count(calls, "update_sampling_params") = 1
           /\ Count(calls, "load_image") + Count(calls, "free_image") = 1
           /\ Pos(calls, "update_sampling_params") < ImageStepEnd(calls)
           /\ Count(calls, "generate_response") <= 1
           /\ Count(calls, "generate_response") = 1
              => /\ ImageStepEnd(calls) < Pos(calls, "generate_response")
                 /\ Pos(calls, "generate_response") = Len(calls)

\* A run with the reset flag set and a non-empty image that loaded has
\* reached generate_response.
C17_Witness ==
    /\ setup.phase = "done" /\ setup.reset
    /\ setup.image_size > 0 /\ setup.loaded
    /\ Count(setup.calls, "reset") = 1
    /\ Count(setup.calls, "generate_response") = 1

\* C18: the vocabulary size and eos token execute hands to
\* update_sampling_params are those the engine reports during that run, after
\* any reset the goal asked for, whatever an earlier run was given.
C18_SamplingParamsFresh ==
    [][(setup.phase = "ready" /\ setup'.phase = "done")
       => /\ gpt_params'.n_vocab = llava_get_n_vocab(llava)
          /\ gpt_params'.token_eos = llava_get_token_eos(llava)
          /\ setup.reset
             => Pos(setup'.calls, "reset")
                   < Pos(setup'.calls, "update_sampling_params")]_vars

\* A run has handed over the values of the model now loaded, which differ from
\* those the run before it handed over.
C18_Witness ==
    /\ setup.phase = "done"
    /\ setup.before # NoParams /\ setup.before # gpt_params
    /\ gpt_params = SamplingParams(llava)

\* C19: every call an execute thread makes on a goal handle (abort,
\* is_canceling, canceled, succeed, and the publish_feedback of send_text
\* during its generation) reaches the handle of the goal the thread was
\* started with, never that of another goal.
C19_OwnHandleOnly ==
    [][\A t \in Goals :
          (ExecuteDeref(t) \/ SendTextDeref(t))
          => (goal_handle_ # NULL => goal_handle_ = t)]_vars

\* C20: goal_handle_ is non-null whenever execute dereferences it, for abort,
\* is_canceling, canceled or succeed.
C20_NonNullAtDeref ==
    [][\A t \in Goals : ExecuteDeref(t) => goal_handle_ # NULL]_vars

====
